---- MODULE Spec2Model ----
(***************************************************************************)
(* Model of piece_assemble: the Cluster value type (clustering.py) and the *)
(* greedy arc selection of approximate_curve_by_circles (piece.py).        *)
(*                                                                         *)
(* Python objects live in a heap: `clusters` is the sequence of Cluster    *)
(* instances created so far, `store` the sequence of dict objects they     *)
(* refer to by address, so that in-place mutation and sharing are visible. *)
(***************************************************************************)
EXTENDS Integers, Sequences, FiniteSets, TLC

VARIABLES clusters, store, last, ops,
          cycle_length, input_intervals, validity_intervals, interval_indexes, arcs, pc,
          segments

vars == <<clusters, store, last, ops,
          cycle_length, input_intervals, validity_intervals, interval_indexes, arcs, pc,
          segments>>

clusterVars == <<clusters, store, last, ops>>
arcVars == <<cycle_length, input_intervals, validity_intervals, interval_indexes, arcs, pc,
            segments>>

(***************************************************************************)
(* Bounds of the model.                                                    *)
(***************************************************************************)
\* side of the square grid (a torus) on which translations and polygons live
GridSize == 4
\* number of Cluster instances the heap may hold
MaxClusters == 3
\* number of operations in one run
MaxOps == 3
\* largest contour length of the segmentation runs
MaxCycle == 6

(***************************************************************************)
(* piece_assemble.geometry.Transformation: a rigid motion, here a rotation *)
(* by quarter turns and a translation on the grid.                         *)
(***************************************************************************)
Transformation == [rot : 0..3, tx : 0..(GridSize - 1), ty : 0..(GridSize - 1)]

\* rotation tolerance of is_close, in quarter turns
AngleTol == 0
\* translation tolerance of is_close, in grid units
TranslationTol == 1

Rotate(k, x, y) ==
    CASE k = 0 -> <<x % GridSize, y % GridSize>>
      [] k = 1 -> <<(0 - y) % GridSize, x % GridSize>>
      [] k = 2 -> <<(0 - x) % GridSize, (0 - y) % GridSize>>
      [] k = 3 -> <<y % GridSize, (0 - x) % GridSize>>

\* Transformation.apply on one point
apply(t, pt) ==
    LET r == Rotate(t.rot, pt[1], pt[2])
    IN  <<(r[1] + t.tx) % GridSize, (r[2] + t.ty) % GridSize>>

\* t.compose(second): t first, then second
compose(t, second) ==
    LET r == Rotate(second.rot, t.tx, t.ty)
    IN  [rot |-> (t.rot + second.rot) % 4,
         tx  |-> (r[1] + second.tx) % GridSize,
         ty  |-> (r[2] + second.ty) % GridSize]

\* t.inverse()
inverse(t) ==
    LET k == (4 - t.rot) % 4
        r == Rotate(k, t.tx, t.ty)
    IN  [rot |-> k, tx |-> (0 - r[1]) % GridSize, ty |-> (0 - r[2]) % GridSize]

CyclicDist(a, b, n) ==
    LET d == (a - b) % n IN IF d <= n - d THEN d ELSE n - d

\* t.is_close(other): rotation and translation agree within the tolerances
is_close(t, other) ==
    /\ CyclicDist(t.rot, other.rot, 4) <= AngleTol
    /\ CyclicDist(t.tx, other.tx, GridSize) * CyclicDist(t.tx, other.tx, GridSize)
       + CyclicDist(t.ty, other.ty, GridSize) * CyclicDist(t.ty, other.ty, GridSize)
         <= TranslationTol * TranslationTol

Identity == [rot |-> 0, tx |-> 0, ty |-> 0]
ShiftX == [rot |-> 0, tx |-> 1, ty |-> 0]
QuarterTurn == [rot |-> 1, tx |-> 0, ty |-> 0]

\* the transformations callers hand to the cluster operations
TInputs == {Identity, ShiftX, QuarterTurn}

(***************************************************************************)
(* OsculatingCircleDescriptor: a piece's name, contour and polygon.        *)
(***************************************************************************)
PieceIds == {"A", "B", "C"}

Descriptor(p) == [name |-> p]

\* desc._polygon as the set of grid cells it covers
Polygon(desc) ==
    CASE desc.name = "A" -> {<<0, 0>>, <<1, 0>>}
      [] desc.name = "B" -> {<<0, 0>>}
      [] OTHER           -> {<<0, 0>>, <<0, 1>>}

\* get_common_contour_length(desc1._contour, desc2._contour)
get_common_contour_length(desc1, desc2) ==
    CASE {desc1.name, desc2.name} = {"A", "B"} -> 1
      [] {desc1.name, desc2.name} = {"A", "C"} -> 2
      [] {desc1.name, desc2.name} = {"B", "C"} -> 4
      [] OTHER -> 0

\* shapely.transform(desc._polygon, t.apply)
TransformedPolygon(desc, t) == {apply(t, pt) : pt \in Polygon(desc)}

\* common denominator of the area ratios
RatioScale == Cardinality(Polygon(Descriptor("A"))) * Cardinality(Polygon(Descriptor("B")))
              * Cardinality(Polygon(Descriptor("C")))

MinOf(a, b) == IF a <= b THEN a ELSE b

\* p1.intersection(p2).area / min(p1.area, p2.area), scaled by RatioScale
OverlapRatio(p1, p2) ==
    (Cardinality(p1 \cap p2) * RatioScale) \div MinOf(Cardinality(p1), Cardinality(p2))

(***************************************************************************)
(* Helpers over finite sets.                                               *)
(***************************************************************************)
RECURSIVE SumFn(_)
SumFn(f) ==
    IF DOMAIN f = {} THEN 0
    ELSE LET x == CHOOSE y \in DOMAIN f : TRUE
         IN  f[x] + SumFn([y \in (DOMAIN f) \ {x} |-> f[y]])

MaxOf(S) == CHOOSE m \in S : \A x \in S : x <= m

\* itertools.combinations(S, 2), as unordered pairs
Combinations2(S) == {pr \in SUBSET S : Cardinality(pr) = 2}

(***************************************************************************)
(* The heap.  A heap value is [clusters, store]; a Cluster instance is     *)
(* [pieces, descriptors, transformations] (addresses into store) plus the  *)
(* two cached_property slots, each [set, val].                             *)
(***************************************************************************)
Unset == [set |-> FALSE, val |-> 0]
Cached(v) == [set |-> TRUE, val |-> v]

Heap(cs, st) == [clusters |-> cs, store |-> st]

\* dict.copy() / a dict literal: a new dict object holding `d`
AllocDict(h, d) == Heap(h.clusters, Append(h.store, d))

\* Cluster.piece_ids
piece_ids(h, c) == DOMAIN h.store[h.clusters[c].pieces]

PiecesOf(h, c) == h.store[h.clusters[c].pieces]
DescriptorsOf(h, c) == h.store[h.clusters[c].descriptors]
TransformationsOf(h, c) == h.store[h.clusters[c].transformations]

\* Cluster.__init__(pieces): keeps the dict it is given, builds the two views
ClusterNew(h, paddr) ==
    LET pieces == h.store[paddr]
        descs == [k \in DOMAIN pieces |-> pieces[k].desc]
        trans == [k \in DOMAIN pieces |-> pieces[k].t]
        st == Append(Append(h.store, descs), trans)
        obj == [pieces |-> paddr,
                descriptors |-> Len(h.store) + 1,
                transformations |-> Len(h.store) + 2,
                border_length |-> Unset,
                self_intersection |-> Unset]
    IN  Heap(Append(h.clusters, obj), st)

\* the body of the border_length property: all unordered pairs of members
ComputeBorderLength(h, c) ==
    LET descs == DescriptorsOf(h, c)
        PairLen(pr) ==
            LET k1 == CHOOSE k \in pr : TRUE
                k2 == CHOOSE k \in pr : k # k1
            IN  get_common_contour_length(descs[k1], descs[k2])
    IN  SumFn([pr \in Combinations2(piece_ids(h, c)) |-> PairLen(pr)])

\* reading self.border_length: the cached value, or compute and memoize
BorderLengthValue(h, c) ==
    IF h.clusters[c].border_length.set
    THEN h.clusters[c].border_length.val
    ELSE ComputeBorderLength(h, c)

SetBorderLength(h, c, v) ==
    Heap([h.clusters EXCEPT ![c].border_length = Cached(v)], h.store)

ReadBorderLength(h, c) == SetBorderLength(h, c, BorderLengthValue(h, c))

\* the body of the self_intersection property; max([]) raises
SelfIntersectionDefined(h, c) == Cardinality(piece_ids(h, c)) >= 2

ComputeSelfIntersection(h, c) ==
    LET pieces == PiecesOf(h, c)
        Poly(k) == TransformedPolygon(pieces[k].desc, pieces[k].t)
    IN  MaxOf({OverlapRatio(Poly(k1), Poly(k2)) :
                 <<k1, k2>> \in {pr \in (DOMAIN pieces) \X (DOMAIN pieces) : pr[1] # pr[2]}})

SelfIntersectionValue(h, c) ==
    IF h.clusters[c].self_intersection.set
    THEN h.clusters[c].self_intersection.val
    ELSE ComputeSelfIntersection(h, c)

ReadSelfIntersection(h, c) ==
    Heap([h.clusters EXCEPT ![c].self_intersection = Cached(SelfIntersectionValue(h, c))],
         h.store)

\* Cluster.copy
CopyCluster(h, c) ==
    LET h1 == ClusterNew(AllocDict(h, PiecesOf(h, c)), Len(h.store) + 1)
        n == Len(h1.clusters)
        h2 == ReadBorderLength(h1, c)
    IN  SetBorderLength(h2, n, h2.clusters[c].border_length.val)

\* the dict comprehension of Cluster.transform
TransformedPieces(pieces, transformation) ==
    [k \in DOMAIN pieces |->
        [desc |-> pieces[k].desc, t |-> compose(pieces[k].t, transformation)]]

\* faulty variant of TransformCluster: self._pieces is rewritten in place and
\* handed to the new instance
TransformCluster_InPlace(h, c, transformation) ==
    LET new_pieces == TransformedPieces(PiecesOf(h, c), transformation)
        h0 == Heap(h.clusters, [h.store EXCEPT ![h.clusters[c].pieces] = new_pieces])
        h1 == ClusterNew(h0, h.clusters[c].pieces)
        n == Len(h1.clusters)
        h2 == ReadBorderLength(h1, c)
    IN  SetBorderLength(h2, n, h2.clusters[c].border_length.val)

\* Cluster.transform: a new instance; reading self.border_length memoizes it
TransformCluster(h, c, transformation) ==
    LET new_pieces == TransformedPieces(PiecesOf(h, c), transformation)
        h1 == ClusterNew(AllocDict(h, new_pieces), Len(h.store) + 1)
        n == Len(h1.clusters)
        h2 == ReadBorderLength(h1, c)
    IN  SetBorderLength(h2, n, h2.clusters[c].border_length.val)

\* dict[key] = value on the dict object at `addr`
DictSet(h, addr, key, value) ==
    LET d == h.store[addr]
    IN  Heap(h.clusters,
             [h.store EXCEPT ![addr] =
                 [k \in (DOMAIN d) \cup {key} |-> IF k = key THEN value ELSE d[k]]])

\* the three in-place insertions of Cluster.add
InsertMember(h, c, descriptor, transformation) ==
    LET obj == h.clusters[c]
        h1 == DictSet(h, obj.pieces, descriptor.name,
                      [desc |-> descriptor, t |-> transformation])
        h2 == DictSet(h1, obj.descriptors, descriptor.name, descriptor)
    IN  DictSet(h2, obj.transformations, descriptor.name, transformation)

\* the update loop of Cluster.add: self.border_length += ... for every other key
UpdateBorderLength(h, c, descriptor) ==
    LET others == piece_ids(h, c) \ {descriptor.name}
        descs == DescriptorsOf(h, c)
        Shared(k) == get_common_contour_length(descriptor, descs[k])
    IN  IF others = {} THEN h
        ELSE SetBorderLength(h, c, BorderLengthValue(h, c)
                                      + SumFn([k \in others |-> Shared(k)]))

\* Cluster.add past its duplicate check
AddMember(h, c, descriptor, transformation) ==
    UpdateBorderLength(InsertMember(h, c, descriptor, transformation), c, descriptor)

\* the garbage of a call: drop the instances and dicts allocated after `h`
Truncate(h, base) ==
    Heap(SubSeq(h.clusters, 1, Len(base.clusters)), SubSeq(h.store, 1, Len(base.store)))

\* the two anchor-frame clusters of Cluster.merge, as a heap holding both
MergeFrames(h, c, d, common_key) ==
    LET h1 == TransformCluster(h, c, inverse(TransformationsOf(h, c)[common_key]))
    IN  TransformCluster(h1, d, inverse(TransformationsOf(h1, d)[common_key]))

\* faulty variant of MergeConsistent: cluster1 is compared with itself
MergeConsistent_SelfCompare(hf, cluster1, cluster2, keys) ==
    \A key \in keys :
        is_close(TransformationsOf(hf, cluster1)[key], TransformationsOf(hf, cluster1)[key])

\* the consistency loop of Cluster.merge over the remaining common keys
MergeConsistent(hf, cluster1, cluster2, keys) ==
    \A key \in keys :
        is_close(TransformationsOf(hf, cluster1)[key], TransformationsOf(hf, cluster2)[key])

\* faulty variant of MergedPieces: the update runs the other way round
MergedPieces_PreferFirst(p1, p2) ==
    [k \in (DOMAIN p1) \cup (DOMAIN p2) |-> IF k \in DOMAIN p1 THEN p1[k] ELSE p2[k]]

\* new_pieces = cluster1._pieces.copy(); new_pieces.update(cluster2._pieces)
MergedPieces(p1, p2) ==
    [k \in (DOMAIN p1) \cup (DOMAIN p2) |-> IF k \in DOMAIN p2 THEN p2[k] ELSE p1[k]]

(***************************************************************************)
(* Operations on clusters.  `last` records the most recent call: which     *)
(* operation, on which instances, with which arguments, how it ended and   *)
(* what it returned.                                                       *)
(***************************************************************************)
NoCall == [op |-> "none", c |-> 0, d |-> 0, p |-> "", t |-> Identity, a |-> "",
           outcome |-> "ok", ret |-> 0, val |-> 0]

Call(op, c, d, p, t, a, outcome, ret, val) ==
    [op |-> op, c |-> c, d |-> d, p |-> p, t |-> t, a |-> a,
     outcome |-> outcome, ret |-> ret, val |-> val]

Live == 1..Len(clusters)

\* the first key of a dict literal (piece names in alphabetical order)
FirstKey(S) == CHOOSE k \in S : \A j \in S : k = j \/ (k = "A") \/ (k = "B" /\ j = "C")

\* the dicts callers construct clusters from: one or two pieces, each with its
\* own descriptor, laid out in the frame of the first piece
InputDicts ==
    {[k \in DOMAIN f |-> [desc |-> Descriptor(k), t |-> f[k]]] :
        f \in {g \in UNION {[S -> TInputs] :
                              S \in {X \in SUBSET PieceIds : Cardinality(X) \in {1, 2}}} :
                  g[FirstKey(DOMAIN g)] = Identity}}

SetHeap(h) == clusters' = h.clusters /\ store' = h.store

\* Cluster(pieces)
New(pieces) ==
    /\ ops < MaxOps /\ Len(clusters) < MaxClusters
    /\ SetHeap(ClusterNew(AllocDict(Heap(clusters, store), pieces), Len(store) + 1))
    /\ last' = Call("new", 0, 0, "", Identity, "", "ok", Len(clusters) + 1, 0)
    /\ ops' = ops + 1
    /\ UNCHANGED arcVars

\* faulty variant of AddResult: the duplicate check runs after the insertion
AddResult_CheckAfterInsert(h, c, descriptor, transformation) ==
    IF descriptor.name \in piece_ids(h, c)
    THEN [heap |-> InsertMember(h, c, descriptor, transformation), outcome |-> "ValueError"]
    ELSE [heap |-> AddMember(h, c, descriptor, transformation), outcome |-> "ok"]

\* Cluster.add: the duplicate check, then the insertion and the update
AddResult(h, c, descriptor, transformation) ==
    IF descriptor.name \in piece_ids(h, c)
    THEN [heap |-> h, outcome |-> "ValueError"]
    ELSE [heap |-> AddMember(h, c, descriptor, transformation), outcome |-> "ok"]

\* c.add(Descriptor(p), t)
Add(c, p, t) ==
    /\ ops < MaxOps
    /\ LET r == AddResult(Heap(clusters, store), c, Descriptor(p), t)
       IN  /\ SetHeap(r.heap)
           /\ last' = Call("add", c, 0, p, t, "", r.outcome, 0, 0)
    /\ ops' = ops + 1
    /\ UNCHANGED arcVars

\* c.copy()
Copy(c) ==
    /\ ops < MaxOps /\ Len(clusters) < MaxClusters
    /\ SetHeap(CopyCluster(Heap(clusters, store), c))
    /\ last' = Call("copy", c, 0, "", Identity, "", "ok", Len(clusters) + 1, 0)
    /\ ops' = ops + 1
    /\ UNCHANGED arcVars

\* c.transform(t)
Transform(c, t) ==
    /\ ops < MaxOps /\ Len(clusters) < MaxClusters
    /\ SetHeap(TransformCluster(Heap(clusters, store), c, t))
    /\ last' = Call("transform", c, 0, "", t, "", "ok", Len(clusters) + 1, 0)
    /\ ops' = ops + 1
    /\ UNCHANGED arcVars

\* faulty variant of MergeNoCommon: with no common key the clusters are united
MergeNoCommon_Union(h, c, d) ==
    [heap |-> ClusterNew(AllocDict(h, MergedPieces(PiecesOf(h, c), PiecesOf(h, d))),
                         Len(h.store) + 1),
     outcome |-> "ok", ret |-> Len(h.clusters) + 1, a |-> ""]

\* common_keys.pop() on an empty set
MergeNoCommon(h, c, d) == [heap |-> h, outcome |-> "KeyError", ret |-> 0, a |-> ""]

\* Cluster.merge once common_keys.pop() has returned common_key
MergeAt(h, c, d, common_keys, common_key) ==
    LET hf == MergeFrames(h, c, d, common_key)
        cluster1 == Len(h.clusters) + 1
        cluster2 == Len(h.clusters) + 2
        base == Truncate(hf, h)
    IN  IF ~MergeConsistent(hf, cluster1, cluster2, common_keys \ {common_key})
        THEN [heap |-> base, outcome |-> "ValueError", ret |-> 0, a |-> common_key]
        ELSE [heap |-> ClusterNew(AllocDict(base, MergedPieces(PiecesOf(hf, cluster1),
                                                              PiecesOf(hf, cluster2))),
                                  Len(base.store) + 1),
              outcome |-> "ok", ret |-> Len(base.clusters) + 1, a |-> common_key]

\* every way Cluster.merge can end: set.pop() returns an arbitrary element
MergeResults(h, c, d) ==
    LET common_keys == piece_ids(h, c) \cap piece_ids(h, d)
    IN  IF common_keys = {}
        THEN {MergeNoCommon(h, c, d)}
        ELSE {MergeAt(h, c, d, common_keys, common_key) : common_key \in common_keys}

\* c.merge(d)
Merge(c, d) ==
    /\ ops < MaxOps /\ Len(clusters) < MaxClusters
    /\ \E r \in MergeResults(Heap(clusters, store), c, d) :
          /\ SetHeap(r.heap)
          /\ last' = Call("merge", c, d, "", Identity, r.a, r.outcome, r.ret, 0)
    /\ ops' = ops + 1
    /\ UNCHANGED arcVars

\* reading c.border_length
GetBorderLength(c) ==
    /\ ops < MaxOps
    /\ SetHeap(ReadBorderLength(Heap(clusters, store), c))
    /\ last' = Call("border_length", c, 0, "", Identity, "", "ok", 0,
                    BorderLengthValue(Heap(clusters, store), c))
    /\ ops' = ops + 1
    /\ UNCHANGED arcVars

\* reading c.self_intersection
GetSelfIntersection(c) ==
    /\ ops < MaxOps
    /\ IF \/ clusters[c].self_intersection.set
          \/ SelfIntersectionDefined(Heap(clusters, store), c)
       THEN /\ SetHeap(ReadSelfIntersection(Heap(clusters, store), c))
            /\ last' = Call("self_intersection", c, 0, "", Identity, "", "ok", 0,
                            SelfIntersectionValue(Heap(clusters, store), c))
       ELSE /\ UNCHANGED <<clusters, store>>
            /\ last' = Call("self_intersection", c, 0, "", Identity, "", "ValueError", 0, 0)
    /\ ops' = ops + 1
    /\ UNCHANGED arcVars

ArcsIdle ==
    /\ cycle_length = 0 /\ input_intervals = <<>>
    /\ validity_intervals = <<>> /\ interval_indexes = <<>>
    /\ arcs = <<>> /\ pc = "idle" /\ segments = <<>>

InitCluster ==
    /\ clusters = <<>> /\ store = <<>> /\ last = NoCall /\ ops = 0
    /\ ArcsIdle

NextCluster ==
    \/ \E pieces \in InputDicts : New(pieces)
    \/ \E c \in Live, p \in PieceIds, t \in TInputs : Add(c, p, t)
    \/ \E c \in Live : Copy(c)
    \/ \E c \in Live, t \in TInputs : Transform(c, t)
    \/ \E c \in Live, d \in Live : Merge(c, d)
    \/ \E c \in Live : GetBorderLength(c)
    \/ \E c \in Live : GetSelfIntersection(c)

SpecCluster == InitCluster /\ [][NextCluster]_vars

(***************************************************************************)
(* Circular interval arithmetic (piece_assemble.geometry).  An interval is *)
(* <<start, end>> over the indices 0..N-1 of a cycle, half-open, end <     *)
(* start meaning wraparound and start = end the empty interval.            *)
(***************************************************************************)
\* circular length of an interval
IntervalLength(interval, N) == (interval[2] - interval[1]) % N

\* extend_interval: the (start, start + length) representation
extend_interval(interval, N) == <<interval[1], interval[1] + IntervalLength(interval, N)>>

\* extend_intervals: extend_interval on every row
extend_intervals(intervals, N) ==
    [i \in 1..Len(intervals) |-> extend_interval(intervals[i], N)]

\* the contour indices an interval covers
IntervalPoints(interval, N) ==
    {(interval[1] + i) % N : i \in 0..(IntervalLength(interval, N) - 1)}

\* interval_difference: what is left of interval1 without interval2, the
\* longest remaining run when interval2 splits it, start = end when nothing
\* is left
interval_difference(interval1, interval2, N) ==
    LET len == IntervalLength(interval1, N)
        Kept(i) == ((interval1[1] + i) % N) \notin IntervalPoints(interval2, N)
        runs == {r \in (0..(len - 1)) \X (0..(len - 1)) :
                    /\ r[1] <= r[2]
                    /\ \A i \in r[1]..r[2] : Kept(i)
                    /\ (r[1] = 0 \/ ~Kept(r[1] - 1))
                    /\ (r[2] = len - 1 \/ ~Kept(r[2] + 1))}
    IN  IF runs = {}
        THEN <<interval1[1], interval1[1]>>
        ELSE LET best == CHOOSE r \in runs : \A q \in runs :
                            \/ r[2] - r[1] > q[2] - q[1]
                            \/ (r[2] - r[1] = q[2] - q[1] /\ r[1] <= q[1])
             IN  <<(interval1[1] + best[1]) % N, (interval1[1] + best[2] + 1) % N>>

(***************************************************************************)
(* approximate_curve_by_circles: the greedy selection loop and the final   *)
(* ordering.  Circle indices are those of numpy, from 0.                   *)
(***************************************************************************)
\* valid_lengths of the loop head
valid_lengths(intervals, N) ==
    LET ext == extend_intervals(intervals, N)
    IN  [i \in 1..Len(intervals) |-> ext[i][2] - ext[i][1]]

\* np.argmax: the first position of the largest value
argmax(values) ==
    CHOOSE i \in 1..Len(values) :
        /\ \A j \in 1..Len(values) : values[j] <= values[i]
        /\ \A j \in 1..(i - 1) : values[j] < values[i]

\* faulty variant of DifferenceAll: only the selected interval is updated
DifferenceAll_SelectedOnly(intervals, validity_interval, N) ==
    [i \in 1..Len(intervals) |->
        IF intervals[i] = validity_interval
        THEN interval_difference(intervals[i], validity_interval, N)
        ELSE intervals[i]]

\* the list comprehension: interval_difference of every interval, the selected
\* one included, with the selected interval
DifferenceAll(intervals, validity_interval, N) ==
    [i \in 1..Len(intervals) |-> interval_difference(intervals[i], validity_interval, N)]

\* faulty variant of NonzeroMask: no row is dropped
NonzeroMask_KeepAll(intervals) == 1..Len(intervals)

\* mask_is_nonzero
NonzeroMask(intervals) == {i \in 1..Len(intervals) : intervals[i][1] # intervals[i][2]}

\* boolean-mask indexing: the rows of the mask, in order
RECURSIVE MaskSelect(_, _)
MaskSelect(rows, mask) ==
    IF rows = <<>> THEN <<>>
    ELSE LET front == MaskSelect(SubSeq(rows, 1, Len(rows) - 1), mask)
         IN  IF Len(rows) \in mask THEN Append(front, rows[Len(rows)]) ELSE front

\* faulty variant of SortArcs: the arcs are returned in selection order
SortArcs_SelectionOrder(selected) == selected

\* arc_ordering = argsort of the circle indices, and the returned list
RECURSIVE SortArcs(_)
SortArcs(selected) ==
    IF selected = <<>> THEN <<>>
    ELSE LET m == CHOOSE i \in 1..Len(selected) :
                     /\ \A j \in 1..Len(selected) : selected[i].index <= selected[j].index
                     /\ \A j \in 1..(i - 1) : selected[j].index # selected[i].index
         IN  <<selected[m]>> \o SortArcs(SubSeq(selected, 1, m - 1)
                                         \o SubSeq(selected, m + 1, Len(selected)))

\* how far a validity interval reaches before and past its own index
ReachBefore == {0, 1}
ReachPast == {1, 2}

\* the validity intervals get_validity_intervals_split hands over: for every
\* contour index i an interval around i that holds i and is not the whole cycle
IntervalsAround(i, N) ==
    {<<(i - l) % N, (i + r) % N>> :
        <<l, r>> \in {lr \in ReachBefore \X ReachPast : lr[1] + lr[2] <= N - 1}}

\* all arrays of validity intervals for the contour indices 0..n-1
RECURSIVE IntervalArrays(_, _)
IntervalArrays(n, N) ==
    IF n = 0 THEN {<<>>}
    ELSE {Append(rows, interval) :
            rows \in IntervalArrays(n - 1, N), interval \in IntervalsAround(n - 1, N)}

ClusterIdle == clusters = <<>> /\ store = <<>> /\ last = NoCall /\ ops = 0

InitArcs ==
    /\ ClusterIdle
    /\ cycle_length \in 2..MaxCycle
    /\ input_intervals \in IntervalArrays(cycle_length, cycle_length)
    /\ validity_intervals = input_intervals
    /\ interval_indexes = [i \in 1..cycle_length |-> i - 1]
    /\ arcs = <<>>
    /\ pc = "loop"
    /\ segments = <<>>

\* one iteration that selects an arc
SelectArc ==
    /\ pc = "loop"
    /\ LET lengths == valid_lengths(validity_intervals, cycle_length)
           max_i == argmax(lengths)
           validity_interval == validity_intervals[max_i]
           updated == DifferenceAll(validity_intervals, validity_interval, cycle_length)
           mask == NonzeroMask(updated)
       IN  /\ lengths[max_i] > 1
           /\ arcs' = Append(arcs, [index |-> interval_indexes[max_i],
                                    interval |-> validity_interval])
           /\ validity_intervals' = MaskSelect(updated, mask)
           /\ interval_indexes' = MaskSelect(interval_indexes, mask)
           /\ pc' = IF Len(MaskSelect(updated, mask)) = 0 THEN "sort" ELSE "loop"
    /\ UNCHANGED <<cycle_length, input_intervals, segments>>
    /\ UNCHANGED clusterVars

\* the iteration that finds the longest interval of length <= 1 and breaks
StopShort ==
    /\ pc = "loop"
    /\ LET lengths == valid_lengths(validity_intervals, cycle_length)
       IN  lengths[argmax(lengths)] <= 1
    /\ pc' = "sort"
    /\ UNCHANGED <<cycle_length, input_intervals, validity_intervals, interval_indexes,
                   arcs, segments>>
    /\ UNCHANGED clusterVars

\* the ordering and the return
Return ==
    /\ pc = "sort"
    /\ segments' = SortArcs(arcs)
    /\ pc' = "done"
    /\ UNCHANGED <<cycle_length, input_intervals, validity_intervals, interval_indexes,
                   arcs>>
    /\ UNCHANGED clusterVars

NextArcs == SelectArc \/ StopShort \/ Return

SpecArcs == InitArcs /\ [][NextArcs]_vars

(***************************************************************************)
(* Properties of the cluster operations.  In an action formula the heap    *)
(* before the call is Before, the heap after it is After, and last' is the *)
(* call that was made.                                                     *)
(***************************************************************************)
Before == Heap(clusters, store)
After == Heap(clusters', store')

\* the three mappings of instance i are the same objects with the same contents
SameMappings(h1, h2, i) ==
    /\ h1.clusters[i].pieces = h2.clusters[i].pieces
    /\ h1.clusters[i].descriptors = h2.clusters[i].descriptors
    /\ h1.clusters[i].transformations = h2.clusters[i].transformations
    /\ PiecesOf(h1, i) = PiecesOf(h2, i)
    /\ DescriptorsOf(h1, i) = DescriptorsOf(h2, i)
    /\ TransformationsOf(h1, i) = TransformationsOf(h2, i)

\* the sum of the shared contour length over all unordered pairs of S
PairSum(S) ==
    LET PairLen(pr) ==
            LET k1 == CHOOSE k \in pr : TRUE
                k2 == CHOOSE k \in pr : k # k1
            IN  get_common_contour_length(Descriptor(k1), Descriptor(k2))
    IN  SumFn([pr \in Combinations2(S) |-> PairLen(pr)])

\* the sum of the shared contour length of piece p with every piece of S
SharedWith(p, S) ==
    LET Shared(k) == get_common_contour_length(Descriptor(p), Descriptor(k))
    IN  SumFn([k \in S |-> Shared(k)])

\* the transformation of member k of instance i relative to member a of i
InFrame(h, i, k, a) ==
    compose(TransformationsOf(h, i)[k], inverse(TransformationsOf(h, i)[a]))

\* the anchor-frame transformations of the ids shared by c and d, the anchor
\* excepted, agree within the tolerances
FramesAgree(h, c, d, a) ==
    \A k \in (piece_ids(h, c) \cap piece_ids(h, d)) \ {a} :
        is_close(InFrame(h, c, k, a), InFrame(h, d, k, a))

\* C1: an add of an id that is already a member fails with the duplicate
\* error (ValueError) and leaves every instance as it was: the member
\* mapping, the descriptors map, the transformations map and border_length.
T_C1_DuplicateAddUnchanged ==
    [][(last'.op = "add" /\ last'.p \in piece_ids(Before, last'.c))
         => /\ last'.outcome = "ValueError"
            /\ clusters' = clusters
            /\ store' = store]_vars

\* C1 witness: a duplicate add was made with a transformation other than the
\* member's, on a cluster of two whose border_length is memoized.
W_C1_DuplicateAdd ==
    /\ last.op = "add" /\ last.outcome = "ValueError"
    /\ last.t # TransformationsOf(Before, last.c)[last.p]
    /\ Cardinality(piece_ids(Before, last.c)) >= 2
    /\ clusters[last.c].border_length.set

\* C2 (as claimed): a successful add of P raises border_length by exactly the
\* sum over the previous members Q of the shared contour length of P and Q,
\* so that a read after the add gives the sum over all pairs of the previous
\* members plus that sum, memoized before the add or not.
CE_C2_AddIncrementsBorderLength ==
    [][(last'.op = "add" /\ last'.outcome = "ok")
         => LET c == last'.c
                prev == piece_ids(Before, c)
            IN  /\ BorderLengthValue(After, c)
                     = BorderLengthValue(Before, c) + SharedWith(last'.p, prev)
                /\ BorderLengthValue(After, c)
                     = PairSum(prev) + SharedWith(last'.p, prev)]_vars

\* C3: a merge succeeds only if every id shared by the two clusters, the
\* anchor excepted, has anchor-frame transformations that agree within the
\* tolerances; if one disagrees the merge fails with ValueError and returns
\* no cluster.
T_C3_MergeChecksConsistency ==
    [][(last'.op = "merge" /\ last'.a # "")
         => LET agree == FramesAgree(Before, last'.c, last'.d, last'.a)
            IN  /\ last'.outcome = "ok" => agree
                /\ ~agree => /\ last'.outcome = "ValueError"
                             /\ last'.ret = 0
                             /\ Len(clusters') = Len(clusters)]_vars

\* C3 witness: a merge of two different clusters failed on a disagreement.
W_C3_InconsistentMerge ==
    /\ last.op = "merge" /\ last.outcome = "ValueError" /\ last.c # last.d
    /\ ~FramesAgree(Before, last.c, last.d, last.a)

\* C4: a successful merge with anchor a returns a cluster whose ids are the
\* union of the inputs' ids, whose anchor carries t_a.compose(t_a.inverse()),
\* and whose member k carries its transformation in its source cluster
\* composed with the inverse of the anchor's there, the value of `other` for
\* an id in both.
T_C4_MergeResult ==
    [][(last'.op = "merge" /\ last'.outcome = "ok")
         => LET c == last'.c
                d == last'.d
                a == last'.a
                r == last'.ret
                Expected(k) == IF k \in piece_ids(Before, d)
                               THEN InFrame(Before, d, k, a)
                               ELSE InFrame(Before, c, k, a)
            IN  /\ r = Len(clusters) + 1
                /\ piece_ids(After, r) = piece_ids(Before, c) \cup piece_ids(Before, d)
                /\ DOMAIN TransformationsOf(After, r) = piece_ids(After, r)
                /\ DOMAIN DescriptorsOf(After, r) = piece_ids(After, r)
                /\ TransformationsOf(After, r)[a] = InFrame(Before, c, a, a)
                /\ TransformationsOf(After, r)[a] = InFrame(Before, d, a, a)
                /\ \A k \in piece_ids(After, r) :
                      /\ TransformationsOf(After, r)[k] = Expected(k)
                      /\ PiecesOf(After, r)[k] = [desc |-> Descriptor(k), t |-> Expected(k)]
                      /\ DescriptorsOf(After, r)[k] = Descriptor(k)]_vars

\* C4 witness: a merge of two different clusters succeeded although a shared
\* id has different (close) anchor-frame transformations in the two.
W_C4_MergeOfCloseFrames ==
    /\ last.op = "merge" /\ last.outcome = "ok" /\ last.c # last.d
    /\ \E k \in piece_ids(Before, last.c) \cap piece_ids(Before, last.d) :
          InFrame(Before, last.c, k, last.a) # InFrame(Before, last.d, k, last.a)

\* C5: a merge of two clusters that share no id fails and produces no
\* cluster.
T_C5_DisjointMergeFails ==
    [][(last'.op = "merge"
          /\ piece_ids(Before, last'.c) \cap piece_ids(Before, last'.d) = {})
         => /\ last'.outcome # "ok"
            /\ last'.ret = 0
            /\ Len(clusters') = Len(clusters)]_vars

\* C5 witness: two single-piece clusters with different ids were merged.
W_C5_DisjointMerge ==
    /\ last.op = "merge"
    /\ Cardinality(piece_ids(Before, last.c)) = 1
    /\ Cardinality(piece_ids(Before, last.d)) = 1
    /\ piece_ids(Before, last.c) \cap piece_ids(Before, last.d) = {}

\* C6: transform and merge, succeeding or failing, leave the mappings of
\* every existing cluster as they were; the cluster they return is a new
\* instance whose mappings are objects of no other cluster; and an add
\* changes the mappings of no cluster but its receiver.
T_C6_TransformMergePure ==
    [][/\ (last'.op \in {"transform", "merge"})
            => /\ \A i \in 1..Len(clusters) : SameMappings(Before, After, i)
               /\ last'.outcome = "ok"
                    => /\ last'.ret = Len(clusters) + 1
                       /\ Len(clusters') = Len(clusters) + 1
                       /\ \A i \in 1..Len(clusters) :
                             {clusters'[i].pieces, clusters'[i].descriptors,
                              clusters'[i].transformations}
                             \cap {clusters'[last'.ret].pieces,
                                   clusters'[last'.ret].descriptors,
                                   clusters'[last'.ret].transformations} = {}
       /\ (last'.op = "add")
            => \A i \in 1..Len(clusters) : i # last'.c => SameMappings(Before, After, i)]_vars

\* C6 witness: a merge of two different clusters returned a cluster.
W_C6_MergeReturned ==
    /\ last.op = "merge" /\ last.outcome = "ok" /\ last.c # last.d
    /\ last.ret = Len(clusters)

\* C7 (as claimed): in every reachable state a read of self_intersection on
\* a cluster with at least two members gives the maximum over all unordered
\* pairs of its current members of the overlap ratio.
CE_C7_SelfIntersectionCurrent ==
    \A c \in Live :
        Cardinality(piece_ids(Before, c)) >= 2
          => SelfIntersectionValue(Before, c) = ComputeSelfIntersection(Before, c)

(***************************************************************************)
(* Properties of approximate_curve_by_circles.                             *)
(***************************************************************************)
\* C8: the validity intervals of the returned arcs are pairwise
\* non-overlapping: no contour index lies in [start, end) of two of them.
T_C8_ArcsDoNotOverlap ==
    pc = "done"
      => \A i, j \in 1..Len(segments) :
            i # j => IntervalPoints(segments[i].interval, cycle_length)
                       \cap IntervalPoints(segments[j].interval, cycle_length) = {}

\* C8 witness: several arcs were returned and one of them is shorter than the
\* validity interval its circle came with, cut by an arc selected before it.
W_C8_ArcWasCut ==
    /\ pc = "done" /\ Len(segments) >= 2
    /\ \E i \in 1..Len(segments) :
          IntervalLength(segments[i].interval, cycle_length)
            < IntervalLength(input_intervals[segments[i].index + 1], cycle_length)

\* C9: the returned list is in ascending order of the originating circle
\* index, whatever the selection order, holds the selected arcs, and holds no
\* circle index twice.
T_C9_ArcsSortedByIndex ==
    pc = "done"
      => /\ \A i, j \in 1..Len(segments) : i < j => segments[i].index < segments[j].index
         /\ Len(segments) = Len(arcs)
         /\ {segments[i] : i \in 1..Len(segments)} = {arcs[i] : i \in 1..Len(arcs)}

\* C9 witness: the arcs were selected in an order that is not ascending.
W_C9_SelectedOutOfOrder ==
    /\ pc = "done" /\ Len(arcs) >= 2
    /\ \E i \in 1..(Len(arcs) - 1) : arcs[i].index > arcs[i + 1].index

\* C10: the selection loop terminates: an iteration either leaves the loop or
\* leaves strictly fewer (and, staying in the loop, some) intervals than it
\* found, the selected one being dropped, and at most N arcs are emitted.
T_C10_LoopTerminates ==
    [][pc = "loop"
         => /\ pc' = "sort" \/ Len(validity_intervals') < Len(validity_intervals)
            /\ pc' = "loop"
                 => /\ Len(validity_intervals') > 0
                    /\ interval_indexes[argmax(valid_lengths(validity_intervals, cycle_length))]
                         \notin {interval_indexes'[i] : i \in 1..Len(interval_indexes')}
            /\ Len(arcs') <= cycle_length]_vars

\* C10 witness: the loop ended because no interval was left, after several
\* arcs.
W_C10_LoopExhausted ==
    /\ pc = "sort" /\ Len(validity_intervals) = 0 /\ Len(arcs) >= 2

====
